---- MODULE Spec2Model ----
(***************************************************************************)
(* Authentication and e-mail verification core of the Bonsai task API:     *)
(* password hashing, signed tokens, the register / login / verify-email /  *)
(* resend-verification handlers and the bearer-token gate, over a store    *)
(* of User rows that every request reaches through its own session.        *)
(*                                                                         *)
(* Time is counted in minutes.  A session reads the committed rows, holds  *)
(* the rows it flushed until the request ends, and commits them when the   *)
(* handler returns (get_db).  An UPDATE carries only the columns whose     *)
(* value the handler changed on the loaded object.                         *)
(***************************************************************************)
EXTENDS Integers, Sequences, FiniteSets, TLC

(* ---------------------------------------------------------------- bounds *)
MaxUsers == 2
MaxTicks == 2
verification_token_expire_hours == 1
MaxTasks == 2

(* ------------------------------------------------------ program constants *)
ACCESS_TOKEN_EXPIRE_MINUTES == 30
SECRET_KEY == "your-secret-key-here-change-in-production"
OtherKey == "some-other-secret"
EmailVerificationType == "email_verification"

(* ------------------------------------------------------------ value sets *)
None == << >>
Some(x) == << x >>
Val(o) == o[1]

Requests == {"r1", "r2"}
NoRequest == "none"
Usernames == {"alice", "a@x.com"}
Emails == {"a@x.com", "b@x.com"}
SoloUsernames == {"alice"}
SoloEmails == {"a@x.com"}
Passwords == {"password123", "hunter2hunter2"}
SignupPasswords == {"password123"}
Salts == {"s1"}
UserIds == 1 .. MaxUsers

Hour == 2 * ACCESS_TOKEN_EXPIRE_MINUTES
MaxNow == MaxTicks * Hour
VerificationMinutes == verification_token_expire_hours * Hour
AccessExp == {k * Hour + ACCESS_TOKEN_EXPIRE_MINUTES : k \in 0 .. MaxTicks}
VerificationExp == {k * Hour + VerificationMinutes : k \in 0 .. MaxTicks}

Subjects == {None} \cup {Some(s) : s \in Usernames \cup Emails}
IdClaims == {None} \cup {Some(i) : i \in UserIds}
Keys == {SECRET_KEY, OtherKey}
Max(S) == CHOOSE x \in S : \A y \in S : y <= x

(* The claims a presented token may carry: with the type tag and an expiry  *)
(* a verification token can have, or without it and with an expiry an      *)
(* access token can have.                                                   *)
Claims ==
    [sub : Subjects, user_id : IdClaims, type : {Some(EmailVerificationType)},
     exp : VerificationExp]
    \cup [sub : Subjects, user_id : IdClaims, type : {None}, exp : AccessExp]

(* Presented tokens: every claims set signed with the configured secret,    *)
(* and the latest-expiring ones signed with another secret.                 *)
Tokens ==
    {[sub |-> c.sub, user_id |-> c.user_id, type |-> c.type, exp |-> c.exp, key |-> k] :
        c \in Claims, k \in Keys}
    \ {t \in [sub : Subjects, user_id : IdClaims,
              type : {None, Some(EmailVerificationType)},
              exp : AccessExp \cup VerificationExp, key : {OtherKey}] :
            t.exp < Max(AccessExp)}

VARIABLES users, tasks, now, pc, arg, obj, dirty, mailed, writer, last

vars == << users, tasks, now, pc, arg, obj, dirty, mailed, writer, last >>

(* ------------------------------------------------------ Credential Hasher *)
get_password_hash(password, salt) == [salt |-> salt, pw |-> password]

(* a verifier that hashes the candidate with a salt of its own and compares *)
verify_password_fresh_salt(plain_password, hashed_password) ==
    hashed_password = get_password_hash(plain_password, "s0")

verify_password(plain_password, hashed_password) == hashed_password.pw = plain_password

(* ------------------------------------------------------------ Token Codec *)
jwt_encode(claims, key) ==
    [sub |-> claims.sub, user_id |-> claims.user_id, type |-> claims.type,
     exp |-> claims.exp, key |-> key]

jwt_decode(token, key, t) ==
    IF token.key = key /\ ~(token.exp < t)
    THEN Some([sub |-> token.sub, user_id |-> token.user_id,
               type |-> token.type, exp |-> token.exp])
    ELSE None

(* a signer that leaves the user_id key out of the encoded claims *)
create_access_token_no_user_id(data, expires_delta, t) ==
    LET expire == IF expires_delta # None /\ Val(expires_delta) # 0
                  THEN t + Val(expires_delta)
                  ELSE t + ACCESS_TOKEN_EXPIRE_MINUTES
    IN  jwt_encode([sub |-> data.sub, user_id |-> None,
                    type |-> IF "type" \in DOMAIN data THEN data.type ELSE None,
                    exp |-> expire], SECRET_KEY)

(* to_encode = data.copy() with exp added; "if expires_delta:" is false    *)
(* for an absent delta and for a delta of zero.                            *)
create_access_token(data, expires_delta, t) ==
    LET expire == IF expires_delta # None /\ Val(expires_delta) # 0
                  THEN t + Val(expires_delta)
                  ELSE t + ACCESS_TOKEN_EXPIRE_MINUTES
    IN  jwt_encode([sub |-> data.sub, user_id |-> data.user_id,
                    type |-> IF "type" \in DOMAIN data THEN data.type ELSE None,
                    exp |-> expire], SECRET_KEY)

(* decoding that skips the expiry validation *)
decode_access_token_no_exp(token, t) == jwt_decode(token, SECRET_KEY, token.exp)

decode_access_token(token, t) == jwt_decode(token, SECRET_KEY, t)

create_verification_token(user_id, email, t) ==
    jwt_encode([sub |-> Some(email), user_id |-> Some(user_id),
                type |-> Some(EmailVerificationType),
                exp |-> t + VerificationMinutes], SECRET_KEY)

(* decoding that skips the check of the type tag *)
verify_verification_token_any_type(token, t) == jwt_decode(token, SECRET_KEY, t)

verify_verification_token(token, t) ==
    LET payload == jwt_decode(token, SECRET_KEY, t)
    IN  IF payload = None THEN None
        ELSE IF Val(payload).type # Some(EmailVerificationType) THEN None
        ELSE payload

(* ------------------------------------------------------------------ store *)
get_user_by_username(U, username) ==
    LET rows == {u \in U : u.username = username}
    IN  IF rows = {} THEN None ELSE Some(CHOOSE u \in rows : TRUE)

get_user_by_email(U, email) ==
    LET rows == {u \in U : u.email = email}
    IN  IF rows = {} THEN None ELSE Some(CHOOSE u \in rows : TRUE)

get_user_by_id(U, id) ==
    LET rows == {u \in U : Some(u.id) = id}
    IN  IF rows = {} THEN None ELSE Some(CHOOSE u \in rows : TRUE)

Columns ==
    {"id", "email", "username", "hashed_password", "created_at", "email_verified",
     "verification_token", "verification_token_expires"}

User(id, email, username, hashed_password, created_at, email_verified, token, expires) ==
    [id |-> id, email |-> email, username |-> username,
     hashed_password |-> hashed_password, created_at |-> created_at,
     email_verified |-> email_verified,
     verification_token |-> token, verification_token_expires |-> expires]

(* a table whose only constraint is the primary key *)
UniqueViolation_pk_only(U, row) == \E u \in U : u.id = row.id

(* unique=True on users.email and users.username; the primary key *)
UniqueViolation(U, row) ==
    \E u \in U : u.id = row.id \/ u.email = row.email \/ u.username = row.username

(* INTEGER PRIMARY KEY: one more than the largest id in the table *)
NextId(U) ==
    IF U = {} THEN 1 ELSE 1 + (CHOOSE i \in {u.id : u \in U} : \A u \in U : u.id <= i)

(* an UPDATE that writes the whole loaded object back, changed or not *)
UpdateRow_whole_object(U, row, cols) ==
    {IF u.id # row.id THEN u ELSE row : u \in U}

(* UPDATE users SET <cols> WHERE id = row.id *)
UpdateRow(U, row, cols) ==
    {IF u.id # row.id THEN u
     ELSE User(u.id, u.email, u.username, u.hashed_password, u.created_at,
               IF "email_verified" \in cols THEN row.email_verified ELSE u.email_verified,
               IF "verification_token" \in cols
               THEN row.verification_token ELSE u.verification_token,
               IF "verification_token_expires" \in cols
               THEN row.verification_token_expires ELSE u.verification_token_expires)
     : u \in U}

(* ------------------------------------------------------------ tasks table *)
TaskIds == 1 .. MaxTasks

Task(id, title, description, completed, user_id) ==
    [id |-> id, title |-> title, description |-> description,
     completed |-> completed, user_id |-> user_id]

(* INTEGER PRIMARY KEY: one more than the largest id in the table *)
NextTaskId(T) ==
    IF T = {} THEN 1 ELSE 1 + (CHOOSE i \in {t.id : t \in T} : \A t \in T : t.id <= i)

(* a lookup by id alone *)
select_task_any_owner(T, task_id, user_id) ==
    LET rows == {t \in T : t.id = task_id}
    IN  IF rows = {} THEN None ELSE Some(CHOOSE t \in rows : TRUE)

(* select(Task).where(Task.id == task_id, Task.user_id == current_user.id) *)
select_task(T, task_id, user_id) ==
    LET rows == {t \in T : t.id = task_id /\ t.user_id = user_id}
    IN  IF rows = {} THEN None ELSE Some(CHOOSE t \in rows : TRUE)

(* select(Task).where(Task.user_id == current_user.id), filtered by completed *)
select_tasks(T, user_id, completed) ==
    {t \in T : t.user_id = user_id /\ (completed = None \/ Some(t.completed) = completed)}

(* UPDATE tasks SET <cols> WHERE id = row.id *)
UpdateTaskRow(T, row, cols) ==
    {IF t.id # row.id THEN t
     ELSE Task(t.id,
               IF "title" \in cols THEN row.title ELSE t.title,
               IF "description" \in cols THEN row.description ELSE t.description,
               IF "completed" \in cols THEN row.completed ELSE t.completed,
               t.user_id)
     : t \in T}

(* The body of a PUT: a key is absent (None), present with null            *)
(* (Some(None)) or present with a value (Some(Some(v))).                   *)
UpdateBodies ==
    [title : {None, Some(None), Some(Some("t2"))},
     description : {None, Some(None), Some(Some("d1"))},
     completed : {None, Some(Some(TRUE))}]

(* TaskUpdate: every field is Optional with default None, so an absent key *)
(* and a null both give the attribute None.                                *)
TaskUpdate(body) ==
    [title |-> IF body.title = None THEN None ELSE Val(body.title),
     description |-> IF body.description = None THEN None ELSE Val(body.description),
     completed |-> IF body.completed = None THEN None ELSE Val(body.completed)]

(* What a task request answers: the handler, the outcome, the id of the    *)
(* authenticated user, the task id it named, and the task or tasks it      *)
(* returns.                                                                *)
TaskResponse(op, outcome, user, task_id, result) ==
    [op |-> op, outcome |-> outcome, user |-> user, token |-> None, mail |-> "none",
     task_id |-> task_id, result |-> result]

NoArg == [op |-> "none", email |-> "", username |-> "", password |-> "", token |-> None]
(* The response the latest step returned, if it returned one: the handler,  *)
(* the outcome, the id of the user it is about, the token it issued (login, *)
(* and register / resend-verification towards the mail) or accepted (the   *)
(* gate, verify-email), and what became of the mail.                        *)
NoLast == [op |-> "none", outcome |-> "none", user |-> None, token |-> None, mail |-> "none"]
Response(op, outcome, user, token, mail) ==
    [op |-> op, outcome |-> outcome, user |-> user, token |-> token, mail |-> mail]

Init ==
    /\ users = {}
    /\ tasks = {}
    /\ now = 0
    /\ pc = [r \in Requests |-> "idle"]
    /\ arg = [r \in Requests |-> NoArg]
    /\ obj = [r \in Requests |-> None]
    /\ dirty = [r \in Requests |-> {}]
    /\ mailed = [r \in Requests |-> "none"]
    /\ writer = NoRequest
    /\ last = NoLast

(* The clock advances between any two steps of any requests. *)
Advance ==
    /\ now + Hour <= MaxNow
    /\ now' = now + Hour
    /\ last' = NoLast
    /\ UNCHANGED << users, tasks, pc, arg, obj, dirty, mailed, writer >>

(* ------------------------------------------------------------- Auth Gate *)
(* a gate that resolves the user by the carried id *)
get_current_user_by_id(token, U, t) ==
    LET payload == decode_access_token(token, t)
    IN  IF payload = None THEN None
        ELSE IF Val(payload).sub = None \/ Val(payload).user_id = None THEN None
        ELSE get_user_by_id(U, Val(payload).user_id)

(* a gate that turns unverified users away *)
get_current_user_verified_only(token, U, t) ==
    LET payload == decode_access_token(token, t)
    IN  IF payload = None THEN None
        ELSE IF Val(payload).sub = None \/ Val(payload).user_id = None THEN None
        ELSE LET user == get_user_by_username(U, Val(Val(payload).sub))
             IN  IF user # None /\ ~Val(user).email_verified THEN None ELSE user

get_current_user(token, U, t) ==
    LET payload == decode_access_token(token, t)
    IN  IF payload = None THEN None
        ELSE IF Val(payload).sub = None \/ Val(payload).user_id = None THEN None
        ELSE get_user_by_username(U, Val(Val(payload).sub))

GetCurrentUser ==
    \E token \in Tokens :
        LET user == get_current_user(token, users, now)
        IN  /\ last' = IF user = None
                       THEN Response("get_current_user", "Unauthorized", None, None, "none")
                       ELSE Response("get_current_user", "Authenticated",
                                     Some(Val(user).id), Some(token), "none")
            /\ UNCHANGED << users, tasks, now, pc, arg, obj, dirty, mailed, writer >>

(* ------------------------------------------------------------------ login *)
authenticate_user(U, username, password) ==
    LET user == get_user_by_username(U, username)
    IN  IF user = None THEN None
        ELSE IF ~verify_password(password, Val(user).hashed_password) THEN None
        ELSE user

(* a login that tells an unknown username from a wrong password *)
login_response_by_cause(U, username, password, t) ==
    LET user == authenticate_user(U, username, password)
    IN  IF get_user_by_username(U, username) = None
        THEN Response("login", "UserNotFound", None, None, "none")
        ELSE IF user = None
        THEN Response("login", "InvalidCredentials", None, None, "none")
        ELSE Response("login", "Token", Some(Val(user).id),
                      Some(create_access_token([sub |-> Some(Val(user).username),
                                                user_id |-> Some(Val(user).id)],
                                               Some(ACCESS_TOKEN_EXPIRE_MINUTES), t)),
                      "none")

(* a login whose token names the user by e-mail *)
login_response_sub_email(U, username, password, t) ==
    LET user == authenticate_user(U, username, password)
    IN  IF user = None
        THEN Response("login", "InvalidCredentials", None, None, "none")
        ELSE Response("login", "Token", Some(Val(user).id),
                      Some(create_access_token([sub |-> Some(Val(user).email),
                                                user_id |-> Some(Val(user).id)],
                                               Some(ACCESS_TOKEN_EXPIRE_MINUTES), t)),
                      "none")

(* What login and login/json answer: 401 "Incorrect username or password"  *)
(* with WWW-Authenticate: Bearer when authenticate_user finds nothing,     *)
(* the access token otherwise.                                             *)
login_response(U, username, password, t) ==
    LET user == authenticate_user(U, username, password)
    IN  IF user = None
        THEN Response("login", "InvalidCredentials", None, None, "none")
        ELSE Response("login", "Token", Some(Val(user).id),
                      Some(create_access_token([sub |-> Some(Val(user).username),
                                                user_id |-> Some(Val(user).id)],
                                               Some(ACCESS_TOKEN_EXPIRE_MINUTES), t)),
                      "none")

(* a login that marks the user it authenticated as verified *)
login_marks_verified ==
    \E username \in Usernames, password \in Passwords :
        LET response == login_response(users, username, password, now)
        IN  /\ last' = response
            /\ users' = {IF Some(u.id) = response.user
                         THEN User(u.id, u.email, u.username, u.hashed_password,
                                   u.created_at, TRUE, None, None)
                         ELSE u : u \in users}
            /\ UNCHANGED << tasks, now, pc, arg, obj, dirty, mailed, writer >>

login ==
    \E username \in Usernames, password \in Passwords :
        /\ last' = login_response(users, username, password, now)
        /\ UNCHANGED << users, tasks, now, pc, arg, obj, dirty, mailed, writer >>

(* --------------------------------------------------------------- register *)
InFlightRegisters == {r \in Requests : arg[r].op = "register"}

(* The handler returns or raises before anything was flushed: the session *)
(* has nothing to commit or roll back.                                    *)
Finish(r, response) ==
    /\ last' = response
    /\ pc' = [pc EXCEPT ![r] = "idle"]
    /\ arg' = [arg EXCEPT ![r] = NoArg]
    /\ obj' = [obj EXCEPT ![r] = None]
    /\ dirty' = [dirty EXCEPT ![r] = {}]
    /\ mailed' = [mailed EXCEPT ![r] = "none"]

register(r, emails, usernames, passwords) ==
    /\ pc[r] = "idle"
    /\ Cardinality(users) + Cardinality(InFlightRegisters) < MaxUsers
    /\ \E email \in emails, username \in usernames, password \in passwords :
        LET existing_user == get_user_by_username(users, username)
        IN  IF existing_user # None
            THEN /\ Finish(r, Response("register", "DuplicateUser", None, None, "none"))
            ELSE /\ pc' = [pc EXCEPT ![r] = "register_email"]
                 /\ arg' = [arg EXCEPT ![r] = [op |-> "register", email |-> email,
                                               username |-> username,
                                               password |-> password, token |-> None]]
                 /\ last' = NoLast
                 /\ UNCHANGED << obj, dirty, mailed >>
    /\ UNCHANGED << users, tasks, now, writer >>

register_email(r) ==
    /\ pc[r] = "register_email"
    /\ LET existing_email == get_user_by_email(users, arg[r].email)
       IN  IF existing_email # None
           THEN /\ Finish(r, Response("register", "DuplicateUser", None, None, "none"))
           ELSE /\ pc' = [pc EXCEPT ![r] = "register_flush"]
                /\ last' = NoLast
                /\ UNCHANGED << arg, obj, dirty, mailed >>
    /\ UNCHANGED << users, tasks, now, writer >>

register_flush(r) ==
    /\ pc[r] = "register_flush"
    /\ writer = NoRequest
    /\ \E salt \in Salts :
        LET id == NextId(users)
            verification_token == create_verification_token(id, arg[r].email, now)
            db_user == User(id, arg[r].email, arg[r].username,
                            get_password_hash(arg[r].password, salt), now, FALSE,
                            Some(verification_token), Some(now + VerificationMinutes))
        IN  IF UniqueViolation(users, db_user)
            THEN /\ Finish(r, Response("register", "ServerError", None, None, "none"))
                 /\ UNCHANGED writer
            ELSE /\ obj' = [obj EXCEPT ![r] = Some(db_user)]
                 /\ dirty' = [dirty EXCEPT ![r] = Columns]
                 /\ writer' = r
                 /\ pc' = [pc EXCEPT ![r] = "send_mail"]
                 /\ arg' = [arg EXCEPT ![r].token = Some(verification_token)]
                 /\ last' = NoLast
                 /\ UNCHANGED mailed
    /\ UNCHANGED << users, tasks, now >>

(* ------------------------------------------------ send_verification_email *)
(* The template is rendered and the message sent; whatever goes wrong is  *)
(* caught, here and again by the caller.  The token it is handed is        *)
(* arg[r].token.                                                           *)
send_verification_email(r) ==
    /\ pc[r] = "send_mail"
    /\ \E delivered \in BOOLEAN :
        /\ mailed' = [mailed EXCEPT ![r] = IF delivered THEN "sent" ELSE "failed"]
    /\ pc' = [pc EXCEPT ![r] = "commit"]
    /\ last' = NoLast
    /\ UNCHANGED << users, tasks, now, arg, obj, dirty, writer >>

(* ------------------------------------------------------- get_db: commit *)
TaskOps == {"create_task", "update_task", "toggle_task", "delete_task"}

CommitResponse(r) ==
    CASE arg[r].op = "register" ->
            Response("register", "Created", Some(Val(obj[r]).id), arg[r].token, mailed[r])
      [] arg[r].op = "resend" ->
            Response("resend", "Sent", Some(Val(obj[r]).id), arg[r].token, mailed[r])
      [] arg[r].op = "verify_email" ->
            Response("verify_email", "Verified", Some(Val(obj[r]).id), arg[r].token, "none")
      [] arg[r].op = "delete_task" ->
            TaskResponse("delete_task", "Deleted", Some(arg[r].user), arg[r].task_id, None)
      [] arg[r].op \in TaskOps \ {"delete_task"} ->
            TaskResponse(arg[r].op, "Ok", Some(arg[r].user), Some(Val(obj[r]).id), obj[r])

get_db_commit(r) ==
    /\ pc[r] = "commit"
    /\ writer = r
    /\ users' = CASE arg[r].op = "register" -> users \cup {Val(obj[r])}
                  [] arg[r].op \in {"resend", "verify_email"} ->
                        UpdateRow(users, Val(obj[r]), dirty[r])
                  [] OTHER -> users
    /\ tasks' = CASE arg[r].op = "create_task" -> tasks \cup {Val(obj[r])}
                  [] arg[r].op \in {"update_task", "toggle_task"} ->
                        UpdateTaskRow(tasks, Val(obj[r]), dirty[r])
                  [] arg[r].op = "delete_task" -> {t \in tasks : t.id # Val(obj[r]).id}
                  [] OTHER -> tasks
    /\ writer' = NoRequest
    /\ Finish(r, CommitResponse(r))
    /\ UNCHANGED now

(* a failure that commits what the request had flushed *)
get_db_rollback_commits(r) ==
    /\ pc[r] = "commit"
    /\ writer = r
    /\ users' = CASE arg[r].op = "register" -> users \cup {Val(obj[r])}
                  [] arg[r].op \in {"resend", "verify_email"} ->
                        UpdateRow(users, Val(obj[r]), dirty[r])
                  [] OTHER -> users
    /\ tasks' = CASE arg[r].op = "create_task" -> tasks \cup {Val(obj[r])}
                  [] arg[r].op \in {"update_task", "toggle_task"} ->
                        UpdateTaskRow(tasks, Val(obj[r]), dirty[r])
                  [] arg[r].op = "delete_task" -> {t \in tasks : t.id # Val(obj[r]).id}
                  [] OTHER -> tasks
    /\ writer' = NoRequest
    /\ Finish(r, Response(arg[r].op, "ServerError", None, None, "none"))
    /\ UNCHANGED now

(* get_db: an exception after the flush (session.commit() itself failing   *)
(* included) rolls the session back and is raised again.                   *)
get_db_rollback(r) ==
    /\ pc[r] = "commit"
    /\ writer = r
    /\ writer' = NoRequest
    /\ Finish(r, Response(arg[r].op, "ServerError", None, None, "none"))
    /\ UNCHANGED << users, tasks, now >>

(* ---------------------------------------------------- resend-verification *)
resend_verification_email(r, emails) ==
    /\ pc[r] = "idle"
    /\ \E email \in emails :
        LET user == get_user_by_email(users, email)
        IN  IF user = None
            THEN Finish(r, Response("resend", "IfExists", None, None, "none"))
            ELSE IF Val(user).email_verified
            THEN Finish(r, Response("resend", "AlreadyVerified", Some(Val(user).id), None, "none"))
            ELSE /\ pc' = [pc EXCEPT ![r] = "resend_issue"]
                 /\ arg' = [arg EXCEPT ![r] = [op |-> "resend", email |-> email,
                                               username |-> "", password |-> "",
                                               token |-> None]]
                 /\ obj' = [obj EXCEPT ![r] = user]
                 /\ last' = NoLast
                 /\ UNCHANGED << dirty, mailed >>
    /\ UNCHANGED << users, tasks, now, writer >>

(* The new token and the new expiry are computed and assigned to the      *)
(* loaded object; nothing has been sent to the database yet.              *)
resend_issue(r) ==
    /\ pc[r] = "resend_issue"
    /\ LET user == Val(obj[r])
           verification_token == create_verification_token(user.id, user.email, now)
       IN  /\ obj' = [obj EXCEPT ![r] =
                        Some(User(user.id, user.email, user.username, user.hashed_password,
                                  user.created_at,
                                  user.email_verified, Some(verification_token),
                                  Some(now + VerificationMinutes)))]
           /\ dirty' = [dirty EXCEPT ![r] =
                          (IF user.verification_token # Some(verification_token)
                           THEN {"verification_token"} ELSE {})
                          \cup {"verification_token_expires"}]
           /\ arg' = [arg EXCEPT ![r].token = Some(verification_token)]
    /\ pc' = [pc EXCEPT ![r] = "resend_flush"]
    /\ last' = NoLast
    /\ UNCHANGED << users, tasks, now, mailed, writer >>

(* db.flush(): the UPDATE waits for the write lock and then holds it *)
resend_flush(r) ==
    /\ pc[r] = "resend_flush"
    /\ writer = NoRequest
    /\ writer' = r
    /\ pc' = [pc EXCEPT ![r] = "send_mail"]
    /\ last' = NoLast
    /\ UNCHANGED << users, tasks, now, arg, obj, dirty, mailed >>

(* ----------------------------------------------------------- verify-email *)
(* the stored-expiry check placed before the already-verified check *)
verify_email_check_expiry_first(token, U, t) ==
    LET payload == verify_verification_token(token, t)
    IN  IF payload = None THEN "InvalidToken"
        ELSE LET user == get_user_by_id(U, Val(payload).user_id)
             IN  IF user = None THEN "UserNotFound"
                 ELSE IF Some(Val(user).email) # Val(payload).sub THEN "TokenMismatch"
                 ELSE IF /\ Val(user).verification_token_expires # None
                         /\ Val(Val(user).verification_token_expires) < t
                      THEN "TokenExpired"
                 ELSE IF Val(user).email_verified THEN "AlreadyVerified"
                 ELSE "Proceed"

verify_email_check(token, U, t) ==
    LET payload == verify_verification_token(token, t)
    IN  IF payload = None THEN "InvalidToken"
        ELSE LET user == get_user_by_id(U, Val(payload).user_id)
             IN  IF user = None THEN "UserNotFound"
                 ELSE IF Some(Val(user).email) # Val(payload).sub THEN "TokenMismatch"
                 ELSE IF Val(user).email_verified THEN "AlreadyVerified"
                 ELSE IF /\ Val(user).verification_token_expires # None
                         /\ Val(Val(user).verification_token_expires) < t
                      THEN "TokenExpired"
                 ELSE "Proceed"

verify_email(r) ==
    /\ pc[r] = "idle"
    /\ \E token \in Tokens :
        LET check == verify_email_check(token, users, now)
            user == get_user_by_id(users, token.user_id)
        IN  IF check = "Proceed"
            THEN /\ pc' = [pc EXCEPT ![r] = "verify_flush"]
                 /\ arg' = [arg EXCEPT ![r] = [op |-> "verify_email", email |-> "",
                                               username |-> "", password |-> "",
                                               token |-> Some(token)]]
                 /\ obj' = [obj EXCEPT ![r] = user]
                 /\ last' = NoLast
                 /\ UNCHANGED << dirty, mailed >>
            ELSE Finish(r, Response("verify_email", check,
                                    IF check \in {"InvalidToken", "UserNotFound"}
                                    THEN None ELSE Some(Val(user).id), None, "none"))
    /\ UNCHANGED << users, tasks, now, writer >>

(* a flush that sets the flag and leaves the stored token in place *)
verify_email_flush_keep_token(r) ==
    /\ pc[r] = "verify_flush"
    /\ writer = NoRequest
    /\ LET user == Val(obj[r])
       IN  /\ obj' = [obj EXCEPT ![r] =
                        Some(User(user.id, user.email, user.username, user.hashed_password,
                                  user.created_at, TRUE, user.verification_token,
                                  user.verification_token_expires))]
           /\ dirty' = [dirty EXCEPT ![r] = {"email_verified"}]
    /\ writer' = r
    /\ pc' = [pc EXCEPT ![r] = "commit"]
    /\ last' = NoLast
    /\ UNCHANGED << users, tasks, now, arg, mailed >>

verify_email_flush(r) ==
    /\ pc[r] = "verify_flush"
    /\ writer = NoRequest
    /\ LET user == Val(obj[r])
       IN  /\ obj' = [obj EXCEPT ![r] =
                        Some(User(user.id, user.email, user.username, user.hashed_password,
                                  user.created_at,
                                  TRUE, None, None))]
           /\ dirty' = [dirty EXCEPT ![r] =
                          (IF user.email_verified # TRUE THEN {"email_verified"} ELSE {})
                          \cup (IF user.verification_token # None
                                THEN {"verification_token"} ELSE {})
                          \cup (IF user.verification_token_expires # None
                                THEN {"verification_token_expires"} ELSE {})]
    /\ writer' = r
    /\ pc' = [pc EXCEPT ![r] = "commit"]
    /\ last' = NoLast
    /\ UNCHANGED << users, tasks, now, arg, mailed >>

(* ------------------------------------------------------------ task routes *)
(* The bearer token of a task request: the one login issues now for the    *)
(* user of that name, or, where no user has the name, one that names it.   *)
Bearer(username) ==
    LET user == get_user_by_username(users, username)
    IN  create_access_token([sub |-> Some(username),
                             user_id |-> IF user = None THEN Some(1)
                                         ELSE Some(Val(user).id)],
                            Some(ACCESS_TOKEN_EXPIRE_MINUTES), now)

InFlightCreates == {r \in Requests : arg[r].op = "create_task"}

TaskArg(op, user, task_id, body) == [op |-> op, user |-> user, task_id |-> task_id, body |-> body]

create_task(r, usernames, titles, descriptions) ==
    /\ pc[r] = "idle"
    /\ \E username \in usernames, title \in titles, description \in descriptions,
          completed \in BOOLEAN :
        LET current_user == get_current_user(Bearer(username), users, now)
            db_task == Task(NextTaskId(tasks), title, description, completed,
                            Val(current_user).id)
        IN  IF current_user = None
            THEN /\ Finish(r, TaskResponse("create_task", "Unauthorized", None, None, None))
                 /\ UNCHANGED writer
            ELSE /\ writer = NoRequest
                 /\ NextTaskId(tasks) <= MaxTasks
                 /\ writer' = r
                 /\ pc' = [pc EXCEPT ![r] = "commit"]
                 /\ arg' = [arg EXCEPT ![r] =
                              TaskArg("create_task", Val(current_user).id, Some(db_task.id), None)]
                 /\ obj' = [obj EXCEPT ![r] = Some(db_task)]
                 /\ dirty' = [dirty EXCEPT ![r] = {"title", "description", "completed"}]
                 /\ last' = NoLast
                 /\ UNCHANGED mailed
    /\ UNCHANGED << users, tasks, now >>

get_tasks(r, usernames) ==
    /\ pc[r] = "idle"
    /\ \E username \in usernames, completed \in {None, Some(TRUE), Some(FALSE)} :
        LET current_user == get_current_user(Bearer(username), users, now)
        IN  IF current_user = None
            THEN Finish(r, TaskResponse("get_tasks", "Unauthorized", None, None, None))
            ELSE Finish(r, TaskResponse("get_tasks", "Ok", Some(Val(current_user).id), None,
                                        select_tasks(tasks, Val(current_user).id, completed)))
    /\ UNCHANGED << users, tasks, now, writer >>

get_task(r, usernames) ==
    /\ pc[r] = "idle"
    /\ \E username \in usernames, task_id \in TaskIds :
        LET current_user == get_current_user(Bearer(username), users, now)
            task == select_task(tasks, task_id, Val(current_user).id)
        IN  IF current_user = None
            THEN Finish(r, TaskResponse("get_task", "Unauthorized", None, None, None))
            ELSE IF task = None
            THEN Finish(r, TaskResponse("get_task", "NotFound", Some(Val(current_user).id),
                                        Some(task_id), None))
            ELSE Finish(r, TaskResponse("get_task", "Ok", Some(Val(current_user).id),
                                        Some(task_id), task))
    /\ UNCHANGED << users, tasks, now, writer >>

(* "Update only provided fields": an attribute that is not None is assigned *)
update_task_fields(task, body) ==
    LET task_update == TaskUpdate(body)
    IN  Task(task.id,
             IF task_update.title # None THEN Val(task_update.title) ELSE task.title,
             IF task_update.description # None
             THEN task_update.description ELSE task.description,
             IF task_update.completed # None
             THEN Val(task_update.completed) ELSE task.completed,
             task.user_id)

ChangedColumns(old, new) ==
    (IF old.title # new.title THEN {"title"} ELSE {})
    \cup (IF old.description # new.description THEN {"description"} ELSE {})
    \cup (IF old.completed # new.completed THEN {"completed"} ELSE {})

(* The part of update, toggle and delete that comes after the lookup: the  *)
(* loaded object takes its new values and waits for the flush.             *)
Pending(r, op, user, task, new, body) ==
    /\ pc' = [pc EXCEPT ![r] = "task_flush"]
    /\ arg' = [arg EXCEPT ![r] = TaskArg(op, user, Some(task.id), body)]
    /\ obj' = [obj EXCEPT ![r] = Some(new)]
    /\ dirty' = [dirty EXCEPT ![r] = ChangedColumns(task, new)]
    /\ last' = NoLast
    /\ UNCHANGED mailed

update_task(r, usernames) ==
    /\ pc[r] = "idle"
    /\ \E username \in usernames, task_id \in TaskIds, body \in UpdateBodies :
        LET current_user == get_current_user(Bearer(username), users, now)
            task == select_task(tasks, task_id, Val(current_user).id)
        IN  IF current_user = None
            THEN Finish(r, TaskResponse("update_task", "Unauthorized", None, None, None))
            ELSE IF task = None
            THEN Finish(r, TaskResponse("update_task", "NotFound", Some(Val(current_user).id),
                                        Some(task_id), None))
            ELSE Pending(r, "update_task", Val(current_user).id, Val(task),
                         update_task_fields(Val(task), body), Some(body))
    /\ UNCHANGED << users, tasks, now, writer >>

delete_task(r, usernames) ==
    /\ pc[r] = "idle"
    /\ \E username \in usernames, task_id \in TaskIds :
        LET current_user == get_current_user(Bearer(username), users, now)
            task == select_task(tasks, task_id, Val(current_user).id)
        IN  IF current_user = None
            THEN Finish(r, TaskResponse("delete_task", "Unauthorized", None, None, None))
            ELSE IF task = None
            THEN Finish(r, TaskResponse("delete_task", "NotFound", Some(Val(current_user).id),
                                        Some(task_id), None))
            ELSE Pending(r, "delete_task", Val(current_user).id, Val(task), Val(task), None)
    /\ UNCHANGED << users, tasks, now, writer >>

(* task.completed = not task.completed *)
toggle_completed(task) ==
    Task(task.id, task.title, task.description, ~task.completed, task.user_id)

toggle_task(r, usernames) ==
    /\ pc[r] = "idle"
    /\ \E username \in usernames, task_id \in TaskIds :
        LET current_user == get_current_user(Bearer(username), users, now)
            task == select_task(tasks, task_id, Val(current_user).id)
        IN  IF current_user = None
            THEN Finish(r, TaskResponse("toggle_task", "Unauthorized", None, None, None))
            ELSE IF task = None
            THEN Finish(r, TaskResponse("toggle_task", "NotFound", Some(Val(current_user).id),
                                        Some(task_id), None))
            ELSE Pending(r, "toggle_task", Val(current_user).id, Val(task),
                         toggle_completed(Val(task)), None)
    /\ UNCHANGED << users, tasks, now, writer >>

(* db.flush() of update and toggle, and the flush the commit does for a    *)
(* delete: nothing to send when no column changed; an UPDATE that matches  *)
(* no row raises; otherwise the statement waits for the write lock.        *)
task_flush(r) ==
    /\ pc[r] = "task_flush"
    /\ IF arg[r].op # "delete_task" /\ dirty[r] = {}
       THEN /\ Finish(r, TaskResponse(arg[r].op, "Ok", Some(arg[r].user),
                                      Some(Val(obj[r]).id), obj[r]))
            /\ UNCHANGED writer
       ELSE /\ writer = NoRequest
            /\ IF arg[r].op # "delete_task" /\ \A t \in tasks : t.id # Val(obj[r]).id
               THEN /\ Finish(r, Response(arg[r].op, "ServerError", None, None, "none"))
                    /\ UNCHANGED writer
               ELSE /\ writer' = r
                    /\ pc' = [pc EXCEPT ![r] = "commit"]
                    /\ last' = NoLast
                    /\ UNCHANGED << arg, obj, dirty, mailed >>
    /\ UNCHANGED << users, tasks, now >>

(* Concurrent requests about one account. *)
Next ==
    \/ Advance
    \/ \E r \in Requests : register(r, SoloEmails, SoloUsernames, SignupPasswords)
    \/ \E r \in Requests : register_email(r)
    \/ \E r \in Requests : register_flush(r)
    \/ \E r \in Requests : send_verification_email(r)
    \/ \E r \in Requests : get_db_commit(r)
    \/ \E r \in Requests : resend_verification_email(r, Emails)
    \/ \E r \in Requests : resend_issue(r)
    \/ \E r \in Requests : resend_flush(r)
    \/ \E r \in Requests : verify_email(r)
    \/ \E r \in Requests : verify_email_flush(r)

Spec == Init /\ [][Next]_vars

(* One request at a time, several accounts. *)
Quiet == \A r \in Requests : pc[r] = "idle"

NextSeq ==
    \/ Advance
    \/ Quiet /\ GetCurrentUser
    \/ Quiet /\ login
    \/ register("r1", Emails, Usernames, SignupPasswords)
    \/ register_email("r1")
    \/ register_flush("r1")
    \/ send_verification_email("r1")
    \/ get_db_commit("r1")
    \/ resend_verification_email("r1", Emails)
    \/ resend_issue("r1")
    \/ resend_flush("r1")
    \/ verify_email("r1")
    \/ verify_email_flush("r1")

SpecSeq == Init /\ [][NextSeq]_vars

(* Concurrent requests of one user about its tasks. *)
NextTasks ==
    \/ \E r \in Requests : register(r, SoloEmails, SoloUsernames, SignupPasswords)
    \/ \E r \in Requests : register_email(r)
    \/ \E r \in Requests : register_flush(r)
    \/ \E r \in Requests : send_verification_email(r)
    \/ \E r \in Requests : get_db_commit(r)
    \/ \E r \in Requests : get_db_rollback(r)
    \/ \E r \in Requests : verify_email(r)
    \/ \E r \in Requests : verify_email_flush(r)
    \/ \E r \in Requests : create_task(r, SoloUsernames, {"t1"}, {None})
    \/ \E r \in Requests : get_task(r, SoloUsernames)
    \/ \E r \in Requests : toggle_task(r, SoloUsernames)
    \/ \E r \in Requests : delete_task(r, SoloUsernames)
    \/ \E r \in Requests : task_flush(r)

SpecTasks == Init /\ [][NextTasks]_vars

(* One request at a time, the tasks of several users. *)
NextTasksSeq ==
    \/ register("r1", {"a@x.com"}, {"alice"}, SignupPasswords)
    \/ register("r1", {"b@x.com"}, {"a@x.com"}, SignupPasswords)
    \/ register_email("r1")
    \/ register_flush("r1")
    \/ send_verification_email("r1")
    \/ get_db_commit("r1")
    \/ create_task("r1", Usernames, {"t1"}, {None, Some("d1")})
    \/ get_tasks("r1", Usernames)
    \/ get_task("r1", Usernames)
    \/ update_task("r1", Usernames)
    \/ delete_task("r1", Usernames)
    \/ toggle_task("r1", Usernames)
    \/ task_flush("r1")

SpecTasksSeq == Init /\ [][NextTasksSeq]_vars

(* The Token Codec on its own: signing and decoding with inputs drawn    *)
(* from the claims and lifetimes below.                                  *)
Deltas == {None} \cup {Some(ttl) : ttl \in {0 - 1, 0, 1, ACCESS_TOKEN_EXPIRE_MINUTES}}
SignData == [sub : Subjects, user_id : IdClaims, type : {None, Some(EmailVerificationType)}]

CreateAccessToken(data, expires_delta) ==
    /\ last' = Response("create_access_token", "Token", None,
                        Some(create_access_token(data, expires_delta, now)), "none")
    /\ UNCHANGED << users, tasks, now, pc, arg, obj, dirty, mailed, writer >>

DecodeAccessToken ==
    \E token \in Tokens :
        /\ last' = Response("decode_access_token",
                            IF decode_access_token(token, now) = None
                            THEN "None" ELSE "Payload",
                            None, Some(token), "none")
        /\ UNCHANGED << users, tasks, now, pc, arg, obj, dirty, mailed, writer >>

NextCodec ==
    \/ Advance
    \/ \E data \in SignData, expires_delta \in Deltas : CreateAccessToken(data, expires_delta)
    \/ DecodeAccessToken

SpecCodec == Init /\ [][NextCodec]_vars

(* ------------------------------------------------------------- properties *)
IsVerifyCommit(r) ==
    /\ pc[r] = "commit"
    /\ arg[r].op = "verify_email"
    /\ pc'[r] = "idle"

(* The token Issue produced when the user registered. *)
RegistrationToken(u) == create_verification_token(u.id, u.email, u.created_at)

(* C1: once resend-verification has replaced the stored token, the token   *)
(* issued at registration, presented before its embedded expiry, no longer *)
(* verifies the user: no verify-email request consuming it while another   *)
(* token is stored leaves the user verified.                               *)
C1_ReissueInvalidatesEarlierLink ==
    [][\A r \in Requests : \A u \in users :
          (/\ IsVerifyCommit(r)
           /\ Val(obj[r]).id = u.id
           /\ arg[r].token = Some(RegistrationToken(u))
           /\ u.verification_token # None
           /\ u.verification_token # Some(RegistrationToken(u))
           /\ ~u.email_verified)
          => \A v \in users' : v.id = u.id => ~v.email_verified]_vars

(* C2: of the verify-email requests that run concurrently for one          *)
(* unverified user, at most one performs the false -> true transition:     *)
(* every request that commits the transition finds the committed user      *)
(* still unverified.                                                       *)
C2_AtMostOneTransition ==
    [][\A r \in Requests :
          IsVerifyCommit(r)
          => \E u \in users : u.id = Val(obj[r]).id /\ ~u.email_verified]_vars

(* C3: in every committed state each user has verification_token and       *)
(* verification_token_expires both set or both unset, and a verified user  *)
(* has both unset.                                                         *)
C3_UserRecordInvariant ==
    \A u \in users :
        /\ (u.verification_token = None) <=> (u.verification_token_expires = None)
        /\ u.email_verified =>
             (u.verification_token = None /\ u.verification_token_expires = None)

(* What the claims call a valid verification token: signed with the        *)
(* configured secret, not past its embedded expiry, tagged as verification. *)
ParsesAsVerification(t) ==
    /\ t.key = SECRET_KEY
    /\ t.exp >= now
    /\ t.type = Some(EmailVerificationType)

StoredExpiryPassed(u) ==
    /\ u.verification_token_expires # None
    /\ Val(u.verification_token_expires) < now

Cleared(u) == u.verification_token = None /\ u.verification_token_expires = None

(* C4: consuming a valid, unexpired verification token of an unverified    *)
(* user passes every check, and the request's commit leaves the user       *)
(* verified with both token fields cleared and answers Verified; consuming *)
(* that token again before its embedded expiry answers AlreadyVerified,    *)
(* and an AlreadyVerified answer changes no User record.                   *)
C4_ConsumeVerifiesThenNoOp ==
    /\ [](\A t \in Tokens : \A u \in users :
            (/\ ParsesAsVerification(t)
             /\ t.user_id = Some(u.id)
             /\ t.sub = Some(u.email)
             /\ ~u.email_verified
             /\ ~StoredExpiryPassed(u))
            => verify_email_check(t, users, now) = "Proceed")
    /\ []((last.op = "verify_email" /\ last.outcome = "Verified"
             /\ Val(last.token).exp >= now)
            => verify_email_check(Val(last.token), users, now) = "AlreadyVerified")
    /\ [][/\ \A r \in Requests :
                IsVerifyCommit(r)
                => /\ last'.op = "verify_email" /\ last'.outcome = "Verified"
                   /\ \E v \in users' :
                        v.id = Val(obj[r]).id /\ v.email_verified /\ Cleared(v)
          /\ (last'.op = "verify_email" /\ last'.outcome = "AlreadyVerified")
                => users' = users]_vars

C4_Witness ==
    /\ last.op = "verify_email"
    /\ last.outcome = "Verified"
    /\ \E u \in users : Some(u.id) = last.user /\ u.email_verified /\ Cleared(u)

(* C5: a verified user stays verified at every step, and a verify-email    *)
(* request that reaches a verified user (its token parses, names the       *)
(* user's id and carries the user's email) answers with success, never     *)
(* with an error.                                                          *)
C5_VerifiedIsSticky ==
    /\ [][\A u \in users :
            u.email_verified => \E v \in users' : v.id = u.id /\ v.email_verified]_vars
    /\ [](\A u \in users : \A t \in Tokens :
            (/\ u.email_verified
             /\ ParsesAsVerification(t)
             /\ t.user_id = Some(u.id)
             /\ t.sub = Some(u.email))
            => verify_email_check(t, users, now) = "AlreadyVerified")
    /\ [](\A u \in users :
            (u.email_verified /\ last.op = "verify_email" /\ last.user = Some(u.id))
            => last.outcome \in {"Verified", "AlreadyVerified", "TokenMismatch"})

C5_Witness ==
    /\ last.op = "resend"
    /\ last.outcome = "Sent"
    /\ \E u \in users : Some(u.id) = last.user /\ u.email_verified

(* C6: verify-email answers with the first failing check, in the order     *)
(* parse, user lookup by id, subject against the user's email, already     *)
(* verified, stored expiry; an already verified user gets AlreadyVerified  *)
(* even when the stored expiry has passed; none of these answers changes   *)
(* a User record.                                                          *)
C6_ConsumeCheckOrder ==
    /\ [](\A t \in Tokens :
            LET outcome == verify_email_check(t, users, now)
                found == {u \in users : Some(u.id) = t.user_id}
            IN  /\ ~ParsesAsVerification(t) => outcome = "InvalidToken"
                /\ (ParsesAsVerification(t) /\ found = {}) => outcome = "UserNotFound"
                /\ \A u \in found :
                     ParsesAsVerification(t) =>
                       /\ t.sub # Some(u.email) => outcome = "TokenMismatch"
                       /\ (t.sub = Some(u.email) /\ u.email_verified)
                            => outcome = "AlreadyVerified"
                       /\ (t.sub = Some(u.email) /\ ~u.email_verified
                             /\ StoredExpiryPassed(u))
                            => outcome = "TokenExpired")
    /\ [][(/\ last'.op = "verify_email"
           /\ last'.outcome \in {"InvalidToken", "UserNotFound", "TokenMismatch",
                                 "AlreadyVerified", "TokenExpired"})
          => users' = users]_vars

C6_Witness ==
    /\ last.op = "verify_email"
    /\ last.outcome = "AlreadyVerified"
    /\ \E u \in users : Some(u.id) = last.user /\ u.email_verified /\ StoredExpiryPassed(u)

(* C7: the gate never authenticates a request whose bearer token carries   *)
(* type = "email_verification".                                            *)
C7_GateRejectsVerificationTokens ==
    (last.op = "get_current_user" /\ last.outcome = "Authenticated")
    => Val(last.token).type # Some(EmailVerificationType)

(* C8: verify-email answers InvalidToken to every token whose type claim   *)
(* is not "email_verification", the access token login has just issued     *)
(* included, and an InvalidToken answer changes no User record.            *)
C8_VerifyEmailRejectsOtherTypes ==
    /\ [](\A t \in Tokens :
            t.type # Some(EmailVerificationType)
            => verify_email_check(t, users, now) = "InvalidToken")
    /\ []((last.op = "login" /\ last.outcome = "Token")
            => /\ Val(last.token) \in Tokens
               /\ verify_email_check(Val(last.token), users, now) = "InvalidToken")
    /\ [][(last'.op = "verify_email" /\ last'.outcome = "InvalidToken")
          => users' = users]_vars

C8_Witness ==
    /\ last.op = "login"
    /\ last.outcome = "Token"
    /\ \E u \in users :
         /\ Some(u.id) = last.user
         /\ ~u.email_verified
         /\ Val(last.token).user_id = Some(u.id)

(* C9: decoding yields claims only for a token signed with the configured  *)
(* secret and not past its expiry, and then all of the token's claims; a   *)
(* token signed with another secret or expired decodes to nothing and the  *)
(* gate rejects it.                                                        *)
C9_ParseRequiresSignatureAndExpiry ==
    /\ \A t \in Tokens :
         LET payload == decode_access_token(t, now)
         IN  /\ payload # None =>
                  /\ t.key = SECRET_KEY
                  /\ t.exp >= now
                  /\ Val(payload) = [sub |-> t.sub, user_id |-> t.user_id,
                                     type |-> t.type, exp |-> t.exp]
             /\ (t.key # SECRET_KEY \/ t.exp < now) =>
                  /\ payload = None
                  /\ get_current_user(t, users, now) = None
    /\ (last.op = "get_current_user" /\ last.outcome = "Authenticated")
         => (Val(last.token).key = SECRET_KEY /\ Val(last.token).exp >= now)

C9_Witness ==
    /\ last.op = "get_current_user"
    /\ last.outcome = "Unauthorized"
    /\ \E u \in users : \E t \in Tokens :
         /\ t.sub = Some(u.username)
         /\ t.user_id = Some(u.id)
         /\ t.key = SECRET_KEY
         /\ t.exp < now

(* C10: for a validly signed, unexpired token the gate rejects when sub or *)
(* user_id is absent and when no stored user has username sub; when it     *)
(* accepts, the user it returns is the stored user whose username is sub.  *)
C10_GateResolvesByUsername ==
    /\ \A t \in Tokens :
         (t.key = SECRET_KEY /\ t.exp >= now) =>
           LET user == get_current_user(t, users, now)
           IN  /\ (t.sub = None \/ t.user_id = None) => user = None
               /\ (\A u \in users : Some(u.username) # t.sub) => user = None
               /\ user # None => (Val(user) \in users /\ Some(Val(user).username) = t.sub)
    /\ (last.op = "get_current_user" /\ last.outcome = "Authenticated")
         => /\ Val(last.token).user_id # None
            /\ \E u \in users :
                 Some(u.id) = last.user /\ Some(u.username) = Val(last.token).sub

C10_Witness ==
    /\ last.op = "get_current_user"
    /\ last.outcome = "Authenticated"
    /\ Val(last.token).user_id # last.user
    /\ Cardinality(users) = 2

(* C11: a register request that ends while a stored user holds its         *)
(* username or its e-mail ends as DuplicateUser and adds no user, also     *)
(* when the other user was created by a register request that ran          *)
(* concurrently with it.                                                   *)
C11_DuplicateRegisterRejected ==
    [][\A r \in Requests :
          (/\ arg[r].op = "register"
           /\ pc'[r] = "idle"
           /\ \E u \in users : u.username = arg[r].username \/ u.email = arg[r].email)
          => (last'.outcome = "DuplicateUser" /\ users' = users)]_vars

(* C12: in every committed state no two users share a username and no two  *)
(* share an e-mail, whatever the interleaving of the register requests.    *)
C12_UniqueUsernamesAndEmails ==
    \A u \in users : \A v \in users :
        (u.username = v.username \/ u.email = v.email) => u = v

C12_Witness ==
    /\ last.op = "register"
    /\ last.outcome = "ServerError"
    /\ Cardinality(users) = 1

IsIssueCommit(r) ==
    /\ pc[r] = "commit"
    /\ arg[r].op \in {"register", "resend"}
    /\ pc'[r] = "idle"

(* C13: a failed mail delivery neither fails nor rolls back register or    *)
(* resend-verification: the mail step always hands the request on to its   *)
(* commit with its pending write intact, and the commit of a request whose *)
(* mail failed answers with success and leaves the committed user holding  *)
(* the token and the expiry the request issued; the user register          *)
(* committed is new.                                                       *)
C13_MailFailureNeverFailsIssue ==
    /\ [][\A r \in Requests :
            (pc[r] = "send_mail" /\ pc'[r] # "send_mail")
            => /\ pc'[r] = "commit"
               /\ obj'[r] = obj[r]
               /\ dirty'[r] = dirty[r]
               /\ writer' = writer
               /\ users' = users]_vars
    /\ [][\A r \in Requests :
            (IsIssueCommit(r) /\ mailed[r] = "failed")
            => /\ last'.outcome = (IF arg[r].op = "register" THEN "Created" ELSE "Sent")
               /\ last'.mail = "failed"
               /\ \E v \in users' :
                    /\ v.id = Val(obj[r]).id
                    /\ v.verification_token_expires # None
                    /\ v.verification_token_expires = Val(obj[r]).verification_token_expires
                    /\ v.verification_token = arg[r].token
                    /\ arg[r].op = "register" => v \notin users]_vars

(* C14: when register or resend-verification commits, the stored          *)
(* verification_token of the user is exactly the token the request handed  *)
(* to the mail, whatever was stored before, and verification_token_expires *)
(* is set; the user register commits is new and has email_verified =       *)
(* false.                                                                  *)
C14_IssueStoresMailedToken ==
    [][\A r \in Requests :
          IsIssueCommit(r)
          => /\ arg[r].token # None
             /\ last'.token = arg[r].token
             /\ \E v \in users' :
                  /\ v.id = Val(obj[r]).id
                  /\ v.verification_token = arg[r].token
                  /\ v.verification_token_expires # None
                  /\ arg[r].op = "register" => (~v.email_verified /\ v \notin users)]_vars

AccessTokenFor(u, t) ==
    create_access_token([sub |-> Some(u.username), user_id |-> Some(u.id)],
                        Some(ACCESS_TOKEN_EXPIRE_MINUTES), t)

(* C15: for every stored user with email_verified = false, login with the  *)
(* user's name and a password that matches the stored hash answers with an *)
(* access token, and the gate accepts that token and resolves it to that   *)
(* user.                                                                   *)
C15_GateIgnoresEmailVerified ==
    \A u \in users : \A p \in Passwords :
        (~u.email_verified /\ verify_password(p, u.hashed_password))
        => LET response == login_response(users, u.username, p, now)
           IN  /\ response.outcome = "Token"
               /\ response.user = Some(u.id)
               /\ response.token = Some(AccessTokenFor(u, now))
               /\ get_current_user(Val(response.token), users, now) = Some(u)

C15_Witness ==
    /\ last.op = "get_current_user"
    /\ last.outcome = "Authenticated"
    /\ \E u \in users :
         /\ Some(u.id) = last.user
         /\ ~u.email_verified
         /\ last.token = Some(AccessTokenFor(u, now))

(* C16: a login step, whether it answers with a token or with              *)
(* InvalidCredentials, leaves every User record as it was.                 *)
C16_LoginIsReadOnly ==
    [][last'.op = "login" => users' = users]_vars

C16_Witness ==
    /\ last.op = "login"
    /\ last.outcome = "Token"
    /\ \E u \in users :
         /\ Some(u.id) = last.user
         /\ ~u.email_verified
         /\ u.verification_token # None
         /\ u.verification_token_expires # None

(* C17: a login attempt with an unknown username and a login attempt with  *)
(* a known username and a wrong password get the same response, and it     *)
(* carries no token; every failed login answers with that response.        *)
C17_LoginFailureIndistinguishable ==
    /\ \A n1 \in Usernames : \A n2 \in Usernames :
       \A p1 \in Passwords : \A p2 \in Passwords :
         (/\ get_user_by_username(users, n1) = None
          /\ \E u \in users : u.username = n2 /\ ~verify_password(p2, u.hashed_password))
         => /\ login_response(users, n1, p1, now) = login_response(users, n2, p2, now)
            /\ login_response(users, n1, p1, now).token = None
            /\ login_response(users, n1, p1, now).outcome = "InvalidCredentials"
    /\ (last.op = "login" /\ last.outcome # "Token")
         => last = Response("login", "InvalidCredentials", None, None, "none")

C17_Witness ==
    /\ last.op = "login"
    /\ last.outcome = "InvalidCredentials"
    /\ \E n1 \in Usernames : get_user_by_username(users, n1) = None
    /\ \E n2 \in Usernames : \E p2 \in Passwords : \E u \in users :
         u.username = n2 /\ ~verify_password(p2, u.hashed_password)

PositiveDeltas == {d \in Deltas : d # None /\ Val(d) > 0}

C19_ExpiryIsNowPlusTtl ==
    [][\A data \in SignData : \A d \in Deltas \ {None} :
          CreateAccessToken(data, d)
          => /\ Val(last'.token).exp = now + Val(d)
             /\ Val(d) < 0 => decode_access_token(Val(last'.token), now) = None]_vars

(* C20: verifying a password against its own hash succeeds, whatever the   *)
(* salt, so login with a stored user's name and the password its hash was  *)
(* made from answers with an access token for that user.                   *)
C20_HashVerifyRoundTrip ==
    /\ \A p \in Passwords : \A salt \in Salts :
         verify_password(p, get_password_hash(p, salt))
    /\ \A u \in users : \A p \in Passwords : \A salt \in Salts :
         u.hashed_password = get_password_hash(p, salt)
         => /\ authenticate_user(users, u.username, p) = Some(u)
            /\ login_response(users, u.username, p, now).outcome = "Token"
            /\ login_response(users, u.username, p, now).user = Some(u.id)
    /\ (last.op = "register" /\ last.outcome = "Created")
         => \E u \in users : \E p \in SignupPasswords :
              /\ Some(u.id) = last.user
              /\ login_response(users, u.username, p, now).outcome = "Token"

C20_Witness ==
    /\ last.op = "login"
    /\ last.outcome = "Token"
    /\ Cardinality(users) = 2
    /\ \E u \in users : \E p \in SignupPasswords : \E salt \in Salts :
         Some(u.id) = last.user /\ u.hashed_password = get_password_hash(p, salt)

(* C21: resend-verification answers the same to a request naming an e-mail *)
(* no user has and to a request naming the e-mail of a registered user,    *)
(* verified or not: every response is the one given for an unknown e-mail. *)
C21_ResendHidesEmailExistence ==
    last.op = "resend" => last.outcome = "IfExists"

(* The verification tokens known to have been issued for a user: the one  *)
(* of its registration, the stored one, and those a request in progress   *)
(* has handed to the mail.                                                *)
IssuedTokens(u) ==
    {RegistrationToken(u)}
    \cup (IF u.verification_token = None THEN {} ELSE {Val(u.verification_token)})
    \cup {Val(arg[q].token) : q \in {x \in Requests :
                                     /\ arg[x].op = "resend"
                                     /\ mailed[x] # "none"
                                     /\ Val(obj[x]).id = u.id}}

(* C25: the stored verification_token_expires of a user is never earlier   *)
(* than the embedded expiry of the stored token, and no token issued for   *)
(* the user is answered TokenExpired by verify-email: a token that passes  *)
(* parse is presented before the stored expiry.                            *)
C25_StoredExpiryCoversIssuedTokens ==
    \A u \in users :
        /\ (u.verification_token # None /\ u.verification_token_expires # None)
             => Val(u.verification_token_expires) >= Val(u.verification_token).exp
        /\ \A t \in IssuedTokens(u) : verify_email_check(t, users, now) # "TokenExpired"

(* The clock values at which login can have issued a token for a user. *)
LoginTimes(u) == {k * Hour : k \in {j \in 0 .. MaxTicks : u.created_at <= j * Hour /\ j * Hour <= now}}

(* C24: the access token login issues carries sub = the user's username    *)
(* and user_id = the user's id, and whenever the gate accepts a token      *)
(* login has issued, the user it resolves has the id the token carries.    *)
C24_LoginTokenAgreesWithGate ==
    /\ (last.op = "login" /\ last.outcome = "Token")
         => \E u \in users :
              /\ last.user = Some(u.id)
              /\ Val(last.token).sub = Some(u.username)
              /\ Val(last.token).user_id = Some(u.id)
    /\ \A u \in users : \A p \in Passwords :
         LET response == login_response(users, u.username, p, now)
         IN  response.outcome = "Token"
             => /\ Val(response.token).sub = Some(u.username)
                /\ Val(response.token).user_id = Some(u.id)
    /\ \A u \in users : \A t \in LoginTimes(u) :
         LET user == get_current_user(AccessTokenFor(u, t), users, now)
         IN  user # None => Some(Val(user).id) = AccessTokenFor(u, t).user_id
    /\ (/\ last.op = "get_current_user"
        /\ last.outcome = "Authenticated"
        /\ \E u \in users : \E t \in LoginTimes(u) : last.token = Some(AccessTokenFor(u, t)))
         => last.user = Val(last.token).user_id

C24_Witness ==
    /\ last.op = "get_current_user"
    /\ last.outcome = "Authenticated"
    /\ Cardinality(users) = 2
    /\ now > 0
    /\ \E u \in users :
         /\ u.id = 2
         /\ last.token = Some(AccessTokenFor(u, now))
         /\ last.user = Some(u.id)

LookupOps == {"get_task", "update_task", "delete_task", "toggle_task"}

IsTaskCommit(r, op) ==
    /\ pc[r] = "commit"
    /\ arg[r].op = op
    /\ pc'[r] = "idle"
    /\ last'.outcome \in {"Ok", "Deleted"}

ErrorOutcomes ==
    {"InvalidToken", "UserNotFound", "TokenMismatch", "TokenExpired", "DuplicateUser",
     "Unauthorized", "NotFound", "ServerError"}

(* C23: a request that ends in an error outcome, a failure after its flush *)
(* included, leaves the committed users and tasks as they were.            *)
C23_ErrorsCommitNothing ==
    [][last'.outcome \in ErrorOutcomes => (users' = users /\ tasks' = tasks)]_vars

C23_Witness ==
    /\ last.op = "create_task"
    /\ last.outcome = "ServerError"
    /\ tasks = {}
    /\ \E u \in users : ~u.email_verified

IsUpdateDone(r) ==
    /\ arg[r].op = "update_task"
    /\ pc[r] \in {"task_flush", "commit"}
    /\ pc'[r] = "idle"
    /\ last'.outcome = "Ok"

(* C26: when an update request ends with success, each of title,           *)
(* description and completed keeps its value if the body lacks the key and *)
(* has the body's value if the body has the key, and the task's id and     *)
(* user_id are as before.                                                  *)
C26_UpdateChangesOnlyProvidedFields ==
    [][\A r \in Requests :
          IsUpdateDone(r)
          => \A t \in tasks :
               t.id = Val(obj[r]).id
               => \E x \in tasks' :
                    LET body == Val(arg[r].body)
                    IN  /\ x.id = t.id
                        /\ x.user_id = t.user_id
                        /\ IF body.title = None THEN x.title = t.title
                           ELSE Some(x.title) = Val(body.title)
                        /\ IF body.description = None THEN x.description = t.description
                           ELSE x.description = Val(body.description)
                        /\ IF body.completed = None THEN x.completed = t.completed
                           ELSE Some(x.completed) = Val(body.completed)]_vars

(* C27: every toggle request of the owner that ends with success leaves    *)
(* the committed completed flag negated and title and description as they  *)
(* were, so that n such requests, however interleaved, leave the flag at   *)
(* its original value for even n and at the negation for odd n.            *)
C27_ToggleFlipsCompleted ==
    [][\A r \in Requests :
          IsTaskCommit(r, "toggle_task")
          => \A t \in tasks :
               t.id = Val(obj[r]).id
               => \E x \in tasks' :
                    /\ x.id = t.id
                    /\ x.completed = ~t.completed
                    /\ x.title = t.title
                    /\ x.description = t.description]_vars
====
